---- MODULE Spec2Model ----
(***************************************************************************)
(* Model of the decision-graph event reducer of interfaces/http/main.py    *)
(* over the SQLite schema of interfaces/http/db.py.                        *)
(*                                                                         *)
(* Text values are sequences of one-character strings, so that strip(),    *)
(* isdigit() and int() are computed rather than assumed.  SQL NULL and     *)
(* Python None are the value Null.  Row ids of sessions, nodes, edges and  *)
(* event_log are AUTOINCREMENT keys of tables that never lose a row, so     *)
(* the id of a row is its position in the table; choices can lose rows     *)
(* (INSERT OR REPLACE), so they carry their id and the table keeps its     *)
(* sqlite_sequence counter.  Timestamps, owner and priority are left out.  *)
(***************************************************************************)
EXTENDS Integers, Sequences, FiniteSets, TLC

\* ------------------------------------------------------------------ bounds

MaxSessions == 2
MaxNodes == 2
MaxLog == 3
MaxRationale == 3

\* ------------------------------------------------------------------ text

Null == <<"NULL">>

Digits == {"0", "1", "2", "3", "4", "5", "6", "7", "8", "9"}

DigitVal(c) ==
    CASE c = "0" -> 0 [] c = "1" -> 1 [] c = "2" -> 2 [] c = "3" -> 3
      [] c = "4" -> 4 [] c = "5" -> 5 [] c = "6" -> 6 [] c = "7" -> 7
      [] c = "8" -> 8 [] OTHER -> 9

RECURSIVE LStrip(_)
LStrip(s) == IF s # <<>> /\ Head(s) = " " THEN LStrip(Tail(s)) ELSE s

RECURSIVE RStrip(_)
RStrip(s) ==
    IF s # <<>> /\ s[Len(s)] = " " THEN RStrip(SubSeq(s, 1, Len(s) - 1)) ELSE s

\* str.strip()
Strip(s) == RStrip(LStrip(s))

\* str.isdigit()
IsDigit(s) == s # <<>> /\ \A i \in 1..Len(s) : s[i] \in Digits

RECURSIVE ToInt(_)
\* int(s) for a string of decimal digits
ToInt(s) ==
    IF s = <<>> THEN 0 ELSE 10 * ToInt(SubSeq(s, 1, Len(s) - 1)) + DigitVal(s[Len(s)])

\* Python truthiness of an optional string: None and "" are falsy.
Truthy(v) == v # Null /\ v # <<>>

\* a or b
PyOr(a, b) == IF Truthy(a) THEN a ELSE b

_clean_ref(value) ==
    IF value = Null THEN Null
    ELSE LET text == Strip(value) IN IF text # <<>> THEN text ELSE Null

\* chr(65 + index)
Chr65(index) == IF index = 0 THEN <<"A">> ELSE IF index = 1 THEN <<"B">> ELSE <<"C">>

\* ------------------------------------------------------------------ store

NodeType == {"question", "decision", "task"}
NodeStatus == {"open", "in_progress", "blocked", "done"}
EventType == {"question_presented", "choice_selected", "note_added", "node_status_changed"}

\* The rowid that stands for "no row" (fetchone() returned None).
NoRow == 0

EmptyDb ==
    [sessions |-> <<>>, nodes |-> <<>>, choices |-> {}, choice_seq |-> 0,
     edges |-> <<>>, event_log |-> <<>>]

\* db: the committed store.  last: the most recent completed call, with its
\* input, the store it started from and what it returned.  conn: the position
\* of each connection that is ingesting an event statement by statement.
\* reply: the most recent answer to a read request, with the request.
VARIABLES db, last, conn, reply

vars == <<db, last, conn, reply>>

Conns == {1, 2}

Idle ==
    [pc |-> "idle", event |-> <<>>, session_id |-> 0, node_id |-> 0,
     existing |-> <<>>, ok |-> TRUE]

\* ------------------------------------------------------------------ results

\* What a handler hands back: the connection's working copy of the store, and
\* either the ids it returns or the error it raised.
Ok(d, session_id, node_id) ==
    [ok |-> TRUE, err |-> "", db |-> d, session_id |-> session_id, node_id |-> node_id]

Fail(d, err) ==
    [ok |-> FALSE, err |-> err, db |-> d, session_id |-> NoRow, node_id |-> NoRow]

\* The HTTP status the caller sees for each failure.
HttpStatus(err) ==
    CASE err \in {"title_required", "choices_not_list", "label_required",
                  "note_required", "invalid_status", "no_fields"} -> 400
      [] err \in {"target_not_found", "session_not_found", "node_not_found"} -> 404
      [] err = "external_id_exists" -> 409
      [] OTHER -> 500

\* A connection that commits in its finally clause.
CommitAlways(before, res) == res.db

\* with get_conn() as conn: the block's writes are committed when it ends
\* normally; when it raises, the connection is closed without commit and the
\* open transaction is rolled back.

get_conn(before, res) == IF res.ok THEN res.db ELSE before

\* ------------------------------------------------------------------ statements

\* SELECT id FROM sessions WHERE external_id = ?
SelectSessionByExt(d, ext) ==
    LET hits == {i \in 1..Len(d.sessions) : d.sessions[i].external_id = ext}
    IN IF hits = {} THEN NoRow ELSE CHOOSE i \in hits : \A j \in hits : i <= j

\* The sessions table without its unique index.
NoSessionIndex(d, ext) == FALSE

\* idx_sessions_external_id: UNIQUE ON sessions(external_id) WHERE external_id IS NOT NULL

SessionIndexConflict(d, ext) ==
    ext # Null /\ \E i \in 1..Len(d.sessions) : d.sessions[i].external_id = ext

\* INSERT INTO sessions (external_id, name, started_at)
InsertSession(d, ext) ==
    IF SessionIndexConflict(d, ext) THEN Fail(d, "IntegrityError")
    ELSE Ok([d EXCEPT !.sessions = Append(@, [external_id |-> ext])],
            Len(d.sessions) + 1, NoRow)

\* The nodes table without its unique index.
NoNodeIndex(d, ref) == FALSE

\* idx_nodes_external_ref: UNIQUE ON nodes(external_ref) WHERE external_ref IS NOT NULL
NodeIndexConflict(d, ref) ==
    ref # Null /\ \E i \in 1..Len(d.nodes) : d.nodes[i].external_ref = ref

\* INSERT INTO nodes (...)
InsertNode(d, row) ==
    IF NodeIndexConflict(d, row.external_ref) THEN Fail(d, "IntegrityError")
    ELSE Ok([d EXCEPT !.nodes = Append(@, row)], row.session_id, Len(d.nodes) + 1)

\* A plain INSERT into a table without idx_choices_node_label.
AppendChoice(d, node_id, label, text) ==
    [d EXCEPT
        !.choices = @ \cup {[id |-> d.choice_seq + 1, node_id |-> node_id, label |-> label,
                             text |-> text, is_chosen |-> FALSE]},
        !.choice_seq = @ + 1]

\* INSERT OR REPLACE INTO choices (node_id, label, text): a row that collides
\* on idx_choices_node_label is deleted, and the new row takes a fresh id.
InsertOrReplaceChoice(d, node_id, label, text) ==
    [d EXCEPT
        !.choices = {c \in @ : ~(c.node_id = node_id /\ c.label = label)}
                    \cup {[id |-> d.choice_seq + 1, node_id |-> node_id, label |-> label,
                           text |-> text, is_chosen |-> FALSE]},
        !.choice_seq = @ + 1]

\* The INSERT with its two ids in the wrong order.
EdgeReversed(d, from_id, to_id) ==
    [d EXCEPT !.edges = Append(@, [from_node_id |-> to_id, to_node_id |-> from_id,
                                   type |-> "leads_to"])]

\* INSERT INTO edges (from_node_id, to_node_id, type) VALUES (?, ?, 'leads_to')
InsertEdge(d, from_id, to_id) ==
    [d EXCEPT !.edges = Append(@, [from_node_id |-> from_id, to_node_id |-> to_id,
                                   type |-> "leads_to"])]

\* The latest node of the session, whatever its type.
LatestNodeOfSession(d, session_id) ==
    LET hits == {i \in 1..Len(d.nodes) : d.nodes[i].session_id = session_id}
    IN IF hits = {} THEN NoRow ELSE CHOOSE i \in hits : \A j \in hits : j <= i

_latest_question_node_id(d, session_id) ==
    LET hits == {i \in 1..Len(d.nodes) :
                    d.nodes[i].session_id = session_id /\ d.nodes[i].type = "question"}
    IN IF hits = {} THEN NoRow ELSE CHOOSE i \in hits : \A j \in hits : j <= i

\* The two lookups without their session_id = ? condition.
ResolveGlobally(d, session_id, node_ref) ==
    IF ~Truthy(node_ref) THEN NoRow
    ELSE IF IsDigit(node_ref)
    THEN IF ToInt(node_ref) \in 1..Len(d.nodes) THEN ToInt(node_ref) ELSE NoRow
    ELSE LET hits == {i \in 1..Len(d.nodes) : d.nodes[i].external_ref = node_ref}
         IN IF hits = {} THEN NoRow ELSE CHOOSE i \in hits : TRUE

\* A reference resolved to the latest question of the session, whatever it
\* names.
ResolveToLatest(d, session_id, node_ref) ==
    IF ~Truthy(node_ref) THEN NoRow ELSE _latest_question_node_id(d, session_id)

_resolve_node_id(d, session_id, node_ref) ==
    IF ~Truthy(node_ref) THEN NoRow
    ELSE IF IsDigit(node_ref)
    THEN LET id == ToInt(node_ref)
         IN IF id \in 1..Len(d.nodes) /\ d.nodes[id].session_id = session_id
            THEN id ELSE NoRow
    ELSE LET hits == {i \in 1..Len(d.nodes) :
                         d.nodes[i].external_ref = node_ref
                         /\ d.nodes[i].session_id = session_id}
         IN IF hits = {} THEN NoRow ELSE CHOOSE i \in hits : \A j \in hits : i <= j

\* ------------------------------------------------------------------ reducer

\* The session SELECT of _get_or_create_session_id has returned `row`; the
\* INSERT runs when it found nothing.
SessionIdStep(d, session_external_id, row) ==
    IF row # NoRow THEN Ok(d, row, NoRow) ELSE InsertSession(d, session_external_id)

_get_or_create_session_id(d, session_external_id) ==
    SessionIdStep(d, session_external_id, SelectSessionByExt(d, session_external_id))

\* str(payload.get(key, "")): an absent key reads as the empty string.
StrOrEmpty(v) == IF v = Null THEN <<>> ELSE v

_normalize_choice(item, index) ==
    IF item.is_dict
    THEN [label |-> Strip(PyOr(item.label, Chr65(index))),
          text |-> Strip(PyOr(item.text, <<>>))]
    ELSE [label |-> Chr65(index), text |-> Strip(item.text)]

RECURSIVE InsertChoices(_, _, _, _)
\* for index, item in enumerate(choices), from position `index` (0-based) on
InsertChoices(d, node_id, items, index) ==
    IF index >= Len(items) THEN d
    ELSE LET c == _normalize_choice(items[index + 1], index)
         IN InsertChoices(
                IF c.text # <<>> THEN InsertOrReplaceChoice(d, node_id, c.label, c.text) ELSE d,
                node_id, items, index + 1)

\* The edge inserted without the parent_id is not None test.
LinkAnyway(d, session_id, node_id, parent_ref) ==
    IF parent_ref # Null
    THEN InsertEdge(d, _resolve_node_id(d, session_id, parent_ref), node_id)
    ELSE d

\* Lines 573-583: the optional leads_to edge from the parent to the new node.
LinkParent(d, session_id, node_id, parent_ref) ==
    IF parent_ref # Null
    THEN LET parent_id == _resolve_node_id(d, session_id, parent_ref)
         IN IF parent_id # NoRow THEN InsertEdge(d, parent_id, node_id) ELSE d
    ELSE d

_apply_question_presented(d, session_id, event) ==
    LET event_payload == event.payload
        title == Strip(StrOrEmpty(event_payload.title))
    IN IF title = <<>> THEN Fail(d, "title_required")
       ELSE
       LET node_ref == _clean_ref(event_payload.node_ref)
           context_prompt == _clean_ref(event_payload.context_prompt)
           rationale == _clean_ref(event_payload.rationale)
           cursor == InsertNode(d, [session_id |-> session_id, type |-> "question",
                                    title |-> title, status |-> "open",
                                    rationale |-> rationale,
                                    context_prompt |-> context_prompt,
                                    external_ref |-> node_ref])
       IN IF ~cursor.ok THEN cursor
          ELSE
          LET node_id == cursor.node_id
              choices == event_payload.choices
          IN IF ~choices.is_list THEN Fail(cursor.db, "choices_not_list")
             ELSE
             LET d2 == InsertChoices(cursor.db, node_id, choices.items, 0)
                 parent_ref == _clean_ref(PyOr(event_payload.parent_node_ref,
                                               event_payload.from_node_ref))
             IN Ok(LinkParent(d2, session_id, node_id, parent_ref), session_id, node_id)

\* The fallback taken whenever the reference did not resolve.
FallbackAlways(d, session_id, node_ref) ==
    IF _resolve_node_id(d, session_id, node_ref) # NoRow
    THEN _resolve_node_id(d, session_id, node_ref)
    ELSE _latest_question_node_id(d, session_id)

\* node_id = _resolve_node_id(...) if node_ref is not None else _latest_question_node_id(...)
TargetNode(d, session_id, node_ref) ==
    IF node_ref # Null THEN _resolve_node_id(d, session_id, node_ref)
    ELSE _latest_question_node_id(d, session_id)

ChoiceTargetRef(event_payload) ==
    _clean_ref(PyOr(event_payload.question_node_ref, event_payload.node_ref))

\* Lines 610-625 alone, without the clearing UPDATE of line 606.
SelectWithoutClear(d, node_id, choice_label, choice_text) ==
    LET rowcount == Cardinality({c \in d.choices :
                                     c.node_id = node_id /\ c.label = choice_label})
        set == {IF c.node_id = node_id /\ c.label = choice_label
                THEN [c EXCEPT !.is_chosen = TRUE] ELSE c : c \in d.choices}
    IN IF rowcount = 0
       THEN [d EXCEPT !.choices = set \cup {[id |-> d.choice_seq + 1, node_id |-> node_id,
                                            label |-> choice_label,
                                            text |-> PyOr(choice_text, choice_label),
                                            is_chosen |-> TRUE]},
                      !.choice_seq = @ + 1]
       ELSE [d EXCEPT !.choices = set]

\* Lines 606-625 with the clearing UPDATE run last instead of first.
ClearAfterMark(d, node_id, choice_label, choice_text) ==
    LET marked == SelectWithoutClear(d, node_id, choice_label, choice_text)
    IN [marked EXCEPT !.choices = {IF c.node_id = node_id
                                   THEN [c EXCEPT !.is_chosen = FALSE] ELSE c
                                   : c \in marked.choices}]

\* An upsert: the selected choice also takes the text the event brings.
SelectReplacesText(d, node_id, choice_label, choice_text) ==
    LET kept == {[c EXCEPT !.is_chosen = FALSE] :
                    c \in {x \in d.choices : x.node_id = node_id /\ x.label # choice_label}}
        others == {c \in d.choices : c.node_id # node_id}
    IN [d EXCEPT !.choices = others \cup kept
                             \cup {[id |-> d.choice_seq + 1, node_id |-> node_id,
                                    label |-> choice_label,
                                    text |-> PyOr(choice_text, choice_label),
                                    is_chosen |-> TRUE]},
                 !.choice_seq = @ + 1]

\* Lines 606-625 with the clearing UPDATE run without its WHERE clause.
ClearEveryNode(d, node_id, choice_label, choice_text) ==
    LET cleared == {[c EXCEPT !.is_chosen = FALSE] : c \in d.choices}
        rowcount == Cardinality({c \in cleared :
                                     c.node_id = node_id /\ c.label = choice_label})
        set == {IF c.node_id = node_id /\ c.label = choice_label
                THEN [c EXCEPT !.is_chosen = TRUE] ELSE c : c \in cleared}
    IN IF rowcount = 0
       THEN [d EXCEPT !.choices = set \cup {[id |-> d.choice_seq + 1, node_id |-> node_id,
                                            label |-> choice_label,
                                            text |-> PyOr(choice_text, choice_label),
                                            is_chosen |-> TRUE]},
                      !.choice_seq = @ + 1]
       ELSE [d EXCEPT !.choices = set]

\* The marking UPDATE written as a toggle of the flag.
SelectToggles(d, node_id, choice_label, choice_text) ==
    LET rowcount == Cardinality({c \in d.choices :
                                     c.node_id = node_id /\ c.label = choice_label})
        set == {IF c.node_id # node_id THEN c
                ELSE IF c.label = choice_label THEN [c EXCEPT !.is_chosen = ~@]
                ELSE [c EXCEPT !.is_chosen = FALSE] : c \in d.choices}
    IN IF rowcount = 0
       THEN [d EXCEPT !.choices = set \cup {[id |-> d.choice_seq + 1, node_id |-> node_id,
                                            label |-> choice_label,
                                            text |-> PyOr(choice_text, choice_label),
                                            is_chosen |-> TRUE]},
                      !.choice_seq = @ + 1]
       ELSE [d EXCEPT !.choices = set]

\* Lines 606-625: clear every choice of the node, mark the label, insert it
\* already chosen when no row was marked.
ChoiceSelectedWrite(d, node_id, choice_label, choice_text) ==
    LET cleared == {IF c.node_id = node_id THEN [c EXCEPT !.is_chosen = FALSE] ELSE c
                    : c \in d.choices}
        rowcount == Cardinality({c \in cleared :
                                     c.node_id = node_id /\ c.label = choice_label})
        set == {IF c.node_id = node_id /\ c.label = choice_label
                THEN [c EXCEPT !.is_chosen = TRUE] ELSE c : c \in cleared}
    IN IF rowcount = 0
       THEN [d EXCEPT !.choices = set \cup {[id |-> d.choice_seq + 1, node_id |-> node_id,
                                            label |-> choice_label,
                                            text |-> PyOr(choice_text, choice_label),
                                            is_chosen |-> TRUE]},
                      !.choice_seq = @ + 1]
       ELSE [d EXCEPT !.choices = set]

\* Lines 597-627, line 592 having resolved the target to `node_id`.
ChoiceSelectedFrom(d, session_id, event, node_id) ==
    IF node_id = NoRow THEN Fail(d, "target_not_found")
    ELSE
    LET choice_label == Strip(StrOrEmpty(event.payload.choice_label))
    IN IF choice_label = <<>> THEN Fail(d, "label_required")
       ELSE Ok(ChoiceSelectedWrite(d, node_id, choice_label,
                                   _clean_ref(event.payload.choice_text)),
               session_id, node_id)

_apply_choice_selected(d, session_id, event) ==
    ChoiceSelectedFrom(d, session_id, event,
                       TargetNode(d, session_id, ChoiceTargetRef(event.payload)))

\* A note that overwrites the rationale.
NoteReplaces(existing, note) == note

\* merged = f"{existing}\n{note}" if existing else note

Merged(existing, note) ==
    IF Truthy(existing) THEN existing \o <<"\n">> \o note ELSE note

\* Lines 647-651, `existing` being what line 645 read.
NoteAddedWrite(d, node_id, existing, note) ==
    [d EXCEPT !.nodes[node_id].rationale = Merged(existing, note)]

\* Lines 638-653, line 633 having resolved the target to `node_id`; `existing`
\* is what the SELECT of line 645 returned.
NoteAddedFrom(d, session_id, event, node_id, existing) ==
    IF node_id = NoRow THEN Fail(d, "target_not_found")
    ELSE
    LET note == Strip(StrOrEmpty(event.payload.note))
    IN IF note = <<>> THEN Fail(d, "note_required")
       ELSE Ok(NoteAddedWrite(d, node_id, existing, note), session_id, node_id)

\* SELECT rationale FROM nodes WHERE id = ?
SelectRationale(d, node_id) ==
    IF node_id \in 1..Len(d.nodes) THEN d.nodes[node_id].rationale ELSE Null

_apply_note_added(d, session_id, event) ==
    LET node_id == TargetNode(d, session_id, _clean_ref(event.payload.node_ref))
    IN NoteAddedFrom(d, session_id, event, node_id, SelectRationale(d, node_id))

\* The four status words as text, and the stored value each one names.
Open == <<"o", "p", "e", "n">>
InProgress == <<"i", "n", "_", "p", "r", "o", "g", "r", "e", "s", "s">>
Blocked == <<"b", "l", "o", "c", "k", "e", "d">>
Done == <<"d", "o", "n", "e">>

ValidStatusText == {Open, InProgress, Blocked, Done}

StatusName(text) ==
    CASE text = Open -> "open" [] text = InProgress -> "in_progress"
      [] text = Blocked -> "blocked" [] text = Done -> "done"
      [] OTHER -> "invalid"

\* The UPDATE run without the membership test, on a table without its CHECK.
StatusUnchecked(d, session_id, event, node_id) ==
    IF node_id = NoRow THEN Fail(d, "target_not_found")
    ELSE Ok([d EXCEPT !.nodes[node_id].status =
                 StatusName(Strip(StrOrEmpty(event.payload.status)))],
            session_id, node_id)

\* Lines 666-677, line 661 having resolved the target to `node_id`.
StatusChangedFrom(d, session_id, event, node_id) ==
    IF node_id = NoRow THEN Fail(d, "target_not_found")
    ELSE
    LET new_status == Strip(StrOrEmpty(event.payload.status))
    IN IF new_status \notin ValidStatusText THEN Fail(d, "invalid_status")
       ELSE Ok([d EXCEPT !.nodes[node_id].status = StatusName(new_status)],
               session_id, node_id)

_apply_node_status_changed(d, session_id, event) ==
    StatusChangedFrom(d, session_id, event,
                      TargetNode(d, session_id, _clean_ref(event.payload.node_ref)))

_apply_event(d, session_id, payload) ==
    CASE payload.event_type = "question_presented" ->
            _apply_question_presented(d, session_id, payload)
      [] payload.event_type = "choice_selected" ->
            _apply_choice_selected(d, session_id, payload)
      [] payload.event_type = "note_added" ->
            _apply_note_added(d, session_id, payload)
      [] payload.event_type = "node_status_changed" ->
            _apply_node_status_changed(d, session_id, payload)
      [] OTHER -> Fail(d, "unsupported_event_type")

\* A log that keeps one entry per session: the newest replaces the older one.
LogPerSession(d, session_id, payload) ==
    [d EXCEPT !.event_log =
        Append(SelectSeq(@, LAMBDA e : e.session_id # session_id),
               [session_id |-> session_id, source |-> payload.source,
                event_type |-> payload.event_type])]

\* INSERT INTO event_log (session_id, source, event_type, payload_json)
InsertEventLog(d, session_id, payload) ==
    [d EXCEPT !.event_log = Append(@, [session_id |-> session_id,
                                       source |-> payload.source,
                                       event_type |-> payload.event_type])]

\* Lines 481-500, the session SELECT having returned `row`.
IngestFrom(d, payload, row) ==
    LET s == SessionIdStep(d, payload.session_external_id, row)
    IN IF ~s.ok THEN s
       ELSE LET a == _apply_event(s.db, s.session_id, payload)
            IN IF ~a.ok THEN a
               ELSE Ok(InsertEventLog(a.db, s.session_id, payload),
                       s.session_id, a.node_id)

ingest_event(d, payload) ==
    IngestFrom(d, payload, SelectSessionByExt(d, payload.session_external_id))

\* The statements of ingest_event that read the store before the first write.
\* sqlite3 opens a transaction only in front of an INSERT, UPDATE or DELETE, so
\* each of these SELECTs sees the store as committed at the time it runs, and
\* other connections may commit between them.  From the first write to the
\* commit the connection holds the write lock, so the rest runs as one step.
ReadsTarget(k) ==
    k.session_id # NoRow /\ k.event.event_type # "question_presented"

TargetRef(event) ==
    IF event.event_type = "choice_selected" THEN ChoiceTargetRef(event.payload)
    ELSE _clean_ref(event.payload.node_ref)

ReadsRationale(k) ==
    /\ ReadsTarget(k)
    /\ k.event.event_type = "note_added"
    /\ k.node_id # NoRow
    /\ Strip(StrOrEmpty(k.event.payload.note)) # <<>>

\* The rest of ingest_event for a connection whose reads returned k.session_id,
\* k.node_id and k.existing.
IngestResumed(d, k) ==
    IF ~ReadsTarget(k) THEN IngestFrom(d, k.event, k.session_id)
    ELSE
    LET a == CASE k.event.event_type = "choice_selected" ->
                    ChoiceSelectedFrom(d, k.session_id, k.event, k.node_id)
               [] k.event.event_type = "note_added" ->
                    NoteAddedFrom(d, k.session_id, k.event, k.node_id, k.existing)
               [] OTHER ->
                    StatusChangedFrom(d, k.session_id, k.event, k.node_id)
    IN IF ~a.ok THEN a
       ELSE Ok(InsertEventLog(a.db, k.session_id, k.event), k.session_id, a.node_id)

\* ------------------------------------------------------------------ direct calls

\* POST /api/sessions
create_session(d, payload) ==
    LET cursor == InsertSession(d, payload.external_id)
    IN IF cursor.ok THEN cursor ELSE Fail(cursor.db, "external_id_exists")

\* A node inserted without looking its session up.
CreateNodeUnchecked(d, payload) ==
    InsertNode(d, [session_id |-> payload.session_id, type |-> payload.type,
                   title |-> Strip(payload.title), status |-> payload.status,
                   rationale |-> payload.rationale,
                   context_prompt |-> payload.context_prompt,
                   external_ref |-> payload.external_ref])

\* POST /api/nodes
create_node(d, payload) ==
    IF payload.session_id \notin 1..Len(d.sessions) THEN Fail(d, "session_not_found")
    ELSE InsertNode(d, [session_id |-> payload.session_id, type |-> payload.type,
                        title |-> Strip(payload.title), status |-> payload.status,
                        rationale |-> payload.rationale,
                        context_prompt |-> payload.context_prompt,
                        external_ref |-> payload.external_ref])

\* A field the PATCH body does not set (model_dump(exclude_unset=True)).
Unset == <<"UNSET">>

\* PATCH /api/nodes/{node_id}
update_node(d, node_id, body) ==
    IF body.status = Unset /\ body.rationale = Unset THEN Fail(d, "no_fields")
    ELSE IF node_id \notin 1..Len(d.nodes) THEN Fail(d, "node_not_found")
    \* "status": null is a valid body; the UPDATE then breaks status NOT NULL.
    ELSE IF body.status = Null THEN Fail(d, "IntegrityError")
    ELSE Ok([d EXCEPT
                !.nodes[node_id].status =
                    IF body.status = Unset THEN @ ELSE StatusName(body.status),
                !.nodes[node_id].rationale =
                    IF body.rationale = Unset THEN @ ELSE body.rationale],
            d.nodes[node_id].session_id, node_id)

\* ------------------------------------------------------------------ inputs

SessionTags == {<<"s">>, <<"t">>}

TitleT == <<"T">>
TagQ == <<"q">>
LabelA == <<"A">>
LabelB == <<"B">>
TextX == <<"x">>
TextY == <<"y">>
NoteN == <<"n">>

Bare(text) == [is_dict |-> FALSE, label |-> Null, text |-> text]
Dict(label, text) == [is_dict |-> TRUE, label |-> label, text |-> text]
List(items) == [is_list |-> TRUE, items |-> items]
NotAList == [is_list |-> FALSE, items |-> <<>>]

NoPayload ==
    [title |-> Null, node_ref |-> Null, question_node_ref |-> Null,
     parent_node_ref |-> Null, from_node_ref |-> Null, choices |-> List(<<>>),
     choice_label |-> Null, choice_text |-> Null, note |-> Null, status |-> Null,
     rationale |-> Null, context_prompt |-> Null]

EventIn(source, event_type, tag, payload) ==
    [source |-> source, event_type |-> event_type, session_external_id |-> tag,
     payload |-> payload]

Question(node_ref, parent_node_ref, choices) ==
    [NoPayload EXCEPT !.title = <<" ", "T">>, !.node_ref = node_ref,
                      !.parent_node_ref = parent_node_ref, !.choices = choices]

Choice(node_ref, choice_label, choice_text) ==
    [NoPayload EXCEPT !.question_node_ref = node_ref, !.choice_label = choice_label,
                      !.choice_text = choice_text]

Note(node_ref, note) == [NoPayload EXCEPT !.node_ref = node_ref, !.note = note]

Status(node_ref, status) == [NoPayload EXCEPT !.node_ref = node_ref, !.status = status]

Presented(tag, payload) == EventIn("mcp", "question_presented", tag, payload)
Selected(tag, payload) == EventIn("mcp", "choice_selected", tag, payload)
Noted(tag, payload) == EventIn("mcp", "note_added", tag, payload)
Changed(tag, payload) == EventIn("cli", "node_status_changed", tag, payload)

NodeCreate(session_id, type, rationale, external_ref) ==
    [session_id |-> session_id, type |-> type, title |-> TitleT, status |-> "open",
     rationale |-> rationale, context_prompt |-> Null, external_ref |-> external_ref]

NodeUpdate(node_id, status, rationale) ==
    [node_id |-> node_id, body |-> [status |-> status, rationale |-> rationale]]

\* Question traffic over two sessions: questions with tags, choices and parent
\* references, events that fail at each step, and one event of each other type.
QuestionEvents ==
    {Presented(<<"s">>, Question(TagQ, Null, List(<<>>))),
     Presented(<<"s">>, Question(Null, <<"2">>, List(<<>>))),
     Presented(<<"s">>, Question(Null, TagQ, List(<<Bare(TextX)>>))),
     Presented(<<"t">>, Question(Null, TagQ, List(<<Bare(TextX)>>))),
     Presented(<<"t">>, Question(Null, <<"1">>, NotAList)),
     Presented(<<"t">>, NoPayload),
     Changed(<<"s">>, Status(Null, Done)),
     Changed(<<"t">>, Status(Null, <<"x">>)),
     Selected(<<"t">>, Choice(<<"1">>, <<" ">>, Null)),
     Noted(<<"t">>, Note(<<"1">>, <<>>))}

QuestionSessions == {[external_id |-> Null]}

QuestionNodes == {NodeCreate(1, "decision", Null, Null)}

QuestionUpdates == {NodeUpdate(1, InProgress, Unset)}

\* Reference traffic over two sessions: every kind of follow-up event addressed
\* by tag, by number and by fallback, on question, decision and task nodes.
RefEvents ==
    {Presented(<<"s">>, Question(TagQ, Null, List(<<>>))),
     Presented(<<"t">>, Question(Null, Null, List(<<>>)))}
    \cup {Changed(<<"s">>, Status(r, Done)) : r \in {Null, <<" ">>, TagQ, <<"1">>, <<"2">>}}
    \cup {Selected(<<"s">>, Choice(r, LabelA, Null)) : r \in {Null, <<"1">>}}
    \cup {Noted(<<"t">>, Note(r, NoteN)) : r \in {Null, TagQ}}

RefSessions == {[external_id |-> <<"t">>]}

RefNodes == {NodeCreate(1, "decision", Null, Null), NodeCreate(2, "task", Null, Null)}

RefUpdates == {NodeUpdate(1, Blocked, Unset)}

\* Choice traffic: questions that bring their choices, selections by fallback,
\* by tag and by number, of old and of new labels, and a note and a status change.
ChoiceEvents ==
    {Presented(<<"s">>, Question(TagQ, Null, List(<<Bare(TextX), Bare(TextY)>>))),
     Presented(<<"s">>, Question(Null, Null, List(<<Dict(LabelA, TextX), Dict(LabelA, TextY)>>))),
     Presented(<<"t">>, Question(Null, Null, List(<<Dict(Null, <<" ">>), Dict(Null, TextY)>>))),
     Selected(<<"s">>, Choice(Null, LabelA, Null)),
     Selected(<<"s">>, Choice(Null, LabelB, Null)),
     Selected(<<"s">>, Choice(TagQ, <<"B", " ">>, TextX)),
     Selected(<<"s">>, Choice(<<"1">>, <<"C">>, Null)),
     Selected(<<"t">>, Choice(<<"2">>, <<"C">>, TextY)),
     Noted(<<"s">>, Note(Null, NoteN)),
     Changed(<<"s">>, Status(Null, Blocked))}

ChoiceSessions == {[external_id |-> <<"t">>]}

ChoiceNodes == {NodeCreate(1, "question", Null, Null)}

ChoiceUpdates == {NodeUpdate(1, Done, Unset)}

\* Two connections ingesting at once in one session: the first events of an
\* unseen tag, and a selection and a note on its latest question.
ConcEvents ==
    {Presented(<<"s">>, Question(TagQ, Null, List(<<Bare(TextX)>>))),
     Selected(<<"s">>, Choice(Null, LabelA, Null)),
     Noted(<<"s">>, Note(Null, NoteN))}

ConcSessions == {[external_id |-> <<"s">>]}

Tag2 == <<"2">>

\* Questions tagged with a word and with a number, and events of every type that
\* refer to each of the two tags.
DigitEvents ==
    {Presented(<<"s">>, Question(r, p, List(<<>>))) :
        r \in {Null, TagQ, Tag2}, p \in {Null, TagQ, Tag2}}
    \cup {Selected(<<"s">>, Choice(r, LabelA, TextX)) : r \in {TagQ, Tag2}}
    \cup {Noted(<<"s">>, Note(r, NoteN)) : r \in {TagQ, Tag2}}
    \cup {Changed(<<"s">>, Status(r, Done)) : r \in {TagQ, Tag2}}

\* Two connections selecting on one question at once: a listed label, another
\* listed label, and a label the question does not list.
RaceEvents ==
    {Presented(<<"s">>, Question(TagQ, Null, List(<<Bare(TextX), Bare(TextY)>>))),
     Selected(<<"s">>, Choice(TagQ, LabelA, Null)),
     Selected(<<"s">>, Choice(TagQ, LabelB, Null)),
     Selected(<<"s">>, Choice(Null, <<"C">>, Null))}

NoteM == <<"m">>

\* Two connections adding different notes to one tagged question at once.
NoteRaceEvents ==
    {Presented(<<"s">>, Question(TagQ, Null, List(<<>>))),
     Noted(<<"s">>, Note(TagQ, NoteN)),
     Noted(<<"s">>, Note(TagQ, NoteM))}

\* Note traffic: notes by fallback and by tag on nodes whose rationale is
\* absent, empty or already written.
NoteEvents ==
    {Presented(<<"s">>, Question(TagQ, Null, List(<<>>))),
     Presented(<<"s">>, [Question(Null, Null, List(<<>>)) EXCEPT !.rationale = <<"r", " ">>]),
     Noted(<<"s">>, Note(Null, <<" ", "n">>)),
     Noted(<<"s">>, Note(TagQ, <<"m">>)),
     Noted(<<"s">>, Note(<<"2">>, NoteN)),
     Noted(<<"s">>, Note(Null, <<" ">>))}

NoteSessions == {[external_id |-> <<"s">>]}

NoteNodes == {NodeCreate(1, "task", <<"r">>, Null)}

NoteUpdates == {NodeUpdate(1, Unset, <<>>), NodeUpdate(2, Unset, Null)}

\* ------------------------------------------------------------------ reads

\* ORDER BY id ASC
RECURSIVE OrderById(_)
OrderById(rows) ==
    IF rows = {} THEN <<>>
    ELSE LET first == CHOOSE r \in rows : \A q \in rows : r.id <= q.id
         IN <<first>> \o OrderById(rows \ {first})

\* ORDER BY c.node_id, c.id
RECURSIVE OrderByNodeThenId(_)
OrderByNodeThenId(rows) ==
    IF rows = {} THEN <<>>
    ELSE LET first == CHOOSE r \in rows : \A q \in rows :
                          r.node_id < q.node_id \/ (r.node_id = q.node_id /\ r.id <= q.id)
         IN <<first>> \o OrderByNodeThenId(rows \ {first})

\* _row_to_node: a nodes row with its id.
_row_to_node(d, id) ==
    [id |-> id, session_id |-> d.nodes[id].session_id, type |-> d.nodes[id].type,
     title |-> d.nodes[id].title, status |-> d.nodes[id].status,
     rationale |-> d.nodes[id].rationale,
     context_prompt |-> d.nodes[id].context_prompt,
     external_ref |-> d.nodes[id].external_ref]

\* The three SELECTs without their session condition.
GraphOfAllSessions(d, session_id) ==
    IF session_id \notin 1..Len(d.sessions)
    THEN [ok |-> FALSE, err |-> "session_not_found", nodes |-> <<>>, edges |-> <<>>,
          choices |-> <<>>]
    ELSE [ok |-> TRUE, err |-> "",
          nodes |-> OrderById({_row_to_node(d, i) : i \in 1..Len(d.nodes)}),
          edges |-> OrderById({[id |-> e, from_node_id |-> d.edges[e].from_node_id,
                                to_node_id |-> d.edges[e].to_node_id,
                                type |-> d.edges[e].type] : e \in 1..Len(d.edges)}),
          choices |-> OrderByNodeThenId(d.choices)]

\* GET /api/sessions/{session_id}/graph.  The handler declares the path
\* parameter only: whatever else the query string carries is not bound to
\* anything and the three SELECTs run the same.
get_session_graph(d, session_id) ==
    IF session_id \notin 1..Len(d.sessions)
    THEN [ok |-> FALSE, err |-> "session_not_found", nodes |-> <<>>, edges |-> <<>>,
          choices |-> <<>>]
    ELSE
    LET ids == {i \in 1..Len(d.nodes) : d.nodes[i].session_id = session_id}
        node_rows == OrderById({_row_to_node(d, i) : i \in ids})
        edge_rows == OrderById({[id |-> e, from_node_id |-> d.edges[e].from_node_id,
                               to_node_id |-> d.edges[e].to_node_id,
                               type |-> d.edges[e].type] :
                                  e \in {x \in 1..Len(d.edges) : d.edges[x].from_node_id \in ids}})
        choice_rows == OrderByNodeThenId({c \in d.choices : c.node_id \in ids})
    IN [ok |-> TRUE, err |-> "", nodes |-> node_rows, edges |-> edge_rows,
        choices |-> choice_rows]

\* "<label>: <text>" of a choice.
ChoiceLine(head, c) == <<head>> \o c.label \o <<": ">> \o c.text

\* A chosen-path line that is rendered even when nothing is chosen.
ChosenLineAlways(chosen) ==
    IF chosen = {} THEN << <<"Previously chosen path: ">> >>
    ELSE << ChoiceLine("Previously chosen path: ", CHOOSE c \in chosen : TRUE) >>

\* The "Previously chosen path" line: left out when no choice is chosen.
ChosenLine(chosen) ==
    IF chosen = {} THEN <<>>
    ELSE << ChoiceLine("Previously chosen path: ", CHOOSE c \in chosen : TRUE) >>

\* The fixed-structure text, line by line.  A line is its fixed head followed
\* by the characters of the stored values.
PromptLines(node, chosen, alt) ==
    << <<"Decision point: ">> \o node.title >>
    \o (IF node.context_prompt # Null THEN <<node.context_prompt>> ELSE <<>>)
    \o ChosenLine(chosen)
    \o << ChoiceLine("Alternative to execute now: ", alt) >>

\* build_replay_prompt(nodeId, altChoiceLabel)
build_replay_prompt(d, node_id, alt_choice_label) ==
    IF node_id \notin 1..Len(d.nodes)
    THEN [ok |-> FALSE, err |-> "node_not_found", prompt |-> <<>>]
    ELSE
    LET choices == {c \in d.choices : c.node_id = node_id}
        chosen == {c \in choices : c.is_chosen}
        alts == {c \in choices : c.label = alt_choice_label}
    IN IF alts = {} THEN [ok |-> FALSE, err |-> "choice_not_found", prompt |-> <<>>]
       ELSE [ok |-> TRUE, err |-> "",
             prompt |-> PromptLines(d.nodes[node_id], chosen, CHOOSE c \in alts : TRUE)]

\* Tag traffic: questions and directly created nodes that bring the same and
\* different tags, in one session and in two.
TagEvents ==
    {Presented(<<"s">>, Question(TagQ, Null, List(<<Bare(TextX)>>))),
     Presented(<<"t">>, Question(<<" ", "q">>, Null, List(<<>>))),
     Presented(<<"t">>, Question(<<"r">>, TagQ, List(<<>>))),
     Noted(<<"s">>, Note(TagQ, NoteN))}

TagSessions == {[external_id |-> <<"t">>]}

TagNodes ==
    {NodeCreate(1, "task", Null, TagQ), NodeCreate(1, "decision", Null, <<"r">>),
     NodeCreate(2, "task", Null, Null)}

TagUpdates == {NodeUpdate(1, Done, Unset)}

\* Status traffic: valid, padded, unknown and missing statuses sent to
\* questions and tasks by event, and statuses set and nulled by update.
StatusEvents ==
    {Presented(<<"s">>, Question(TagQ, Null, List(<<>>))),
     Changed(<<"s">>, Status(Null, <<" ", "d", "o", "n", "e">>)),
     Changed(<<"s">>, Status(<<"2">>, Blocked)),
     Changed(<<"s">>, Status(TagQ, <<"D", "o", "n", "e">>)),
     Changed(<<"s">>, Status(Null, Null)),
     Changed(<<"t">>, Status(Null, <<"x">>))}

StatusSessions == {[external_id |-> <<"s">>]}

StatusNodes == {NodeCreate(1, "task", Null, Null)}

StatusUpdates == {NodeUpdate(1, Null, Unset), NodeUpdate(2, InProgress, Unset)}

\* Graph traffic: a question with two choices, a question with none, a
\* selection and a status change in one session, a question in another, and
\* graph requests with and without the two query parameters.
GraphEvents ==
    {Presented(<<"s">>, Question(TagQ, Null, List(<<Dict(LabelA, TextX), Dict(LabelB, TextY)>>))),
     Presented(<<"s">>, Question(Null, TagQ, List(<<>>))),
     Presented(<<"t">>, Question(Null, Null, List(<<>>))),
     Presented(<<"s">>, Question(Null, Null, List(<<Bare(TextX)>>))),
     Selected(<<"s">>, Choice(TagQ, LabelA, Null)),
     Selected(<<"s">>, Choice(TagQ, <<"C">>, Null)),
     Changed(<<"s">>, Status(Null, Done))}

GraphQuery(session_id, status, unchosen_only) ==
    [session_id |-> session_id, status |-> status, unchosen_only |-> unchosen_only]

GraphQueries ==
    {GraphQuery(1, Unset, FALSE), GraphQuery(1, Done, FALSE), GraphQuery(1, Open, FALSE),
     GraphQuery(1, Unset, TRUE), GraphQuery(MaxSessions + 1, Unset, FALSE)}

\* Replay traffic: a question with a context prompt and two choices, one
\* without context and with one choice, selections of either label, and
\* replay requests for known and unknown nodes and labels.
ReplayEvents ==
    {Presented(<<"s">>, [Question(TagQ, Null, List(<<Dict(LabelA, TextX), Dict(LabelB, TextY)>>))
                            EXCEPT !.context_prompt = <<"c">>]),
     Presented(<<"s">>, Question(Null, Null, List(<<Bare(TextY)>>))),
     Selected(<<"s">>, Choice(TagQ, LabelA, Null)),
     Selected(<<"s">>, Choice(Null, LabelB, Null))}

ReplayQuery(node_id, choice_label) == [node_id |-> node_id, choice_label |-> choice_label]

ReplayQueries ==
    {ReplayQuery(n, l) : n \in {1, 2}, l \in {LabelA, LabelB}}
    \cup {ReplayQuery(1, <<"C">>), ReplayQuery(MaxNodes + 1, LabelA)}

\* ------------------------------------------------------------------ actions

Within(d) ==
    /\ Len(d.sessions) <= MaxSessions
    /\ Len(d.nodes) <= MaxNodes
    /\ Len(d.event_log) <= MaxLog
    /\ \A i \in 1..Len(d.nodes) :
          d.nodes[i].rationale = Null \/ Len(d.nodes[i].rationale) <= MaxRationale

Outcome(op, input, res) ==
    [op |-> op, input |-> input, before |-> db, ok |-> res.ok, err |-> res.err,
     session_id |-> res.session_id, node_id |-> res.node_id]

NoReply == [op |-> "none", input |-> <<>>, out |-> <<>>]

Init ==
    /\ db = EmptyDb
    /\ last = [op |-> "init", input |-> <<>>, before |-> EmptyDb, ok |-> TRUE,
               err |-> "", session_id |-> NoRow, node_id |-> NoRow]
    /\ conn = [c \in Conns |-> Idle]
    /\ reply = NoReply

CreateSession(inputs) ==
    \E payload \in inputs :
        \E res \in {create_session(db, payload)} :
           /\ Within(get_conn(db, res))
           /\ db' = get_conn(db, res)
           /\ last' = Outcome("create_session", payload, res)
           /\ UNCHANGED <<conn, reply>>

CreateNode(inputs) ==
    \E payload \in inputs :
        \E res \in {create_node(db, payload)} :
           /\ Within(get_conn(db, res))
           /\ db' = get_conn(db, res)
           /\ last' = Outcome("create_node", payload, res)
           /\ UNCHANGED <<conn, reply>>

UpdateNode(inputs) ==
    \E call \in inputs :
        \E res \in {update_node(db, call.node_id, call.body)} :
           /\ Within(get_conn(db, res))
           /\ db' = get_conn(db, res)
           /\ last' = Outcome("update_node", call, res)
           /\ UNCHANGED <<conn, reply>>

IngestEvent(inputs) ==
    \E payload \in inputs :
        \E res \in {ingest_event(db, payload)} :
           /\ Within(get_conn(db, res))
           /\ db' = get_conn(db, res)
           /\ last' = Outcome("ingest_event", payload, res)
           /\ UNCHANGED <<conn, reply>>

\* A read: the store is left alone and the answer is kept with its request.
GetSessionGraph(inputs) ==
    \E query \in inputs :
        \E out \in {get_session_graph(db, query.session_id)} :
           /\ reply' = [op |-> "get_session_graph", input |-> query, out |-> out]
           /\ last' = [op |-> "get_session_graph", input |-> query, before |-> db,
                       ok |-> out.ok, err |-> out.err,
                       session_id |-> IF out.ok THEN query.session_id ELSE NoRow,
                       node_id |-> NoRow]
           /\ UNCHANGED <<db, conn>>

BuildReplayPrompt(inputs) ==
    \E query \in inputs :
        \E out \in {build_replay_prompt(db, query.node_id, query.choice_label)} :
           /\ reply' = [op |-> "build_replay_prompt", input |-> query, out |-> out]
           /\ last' = [op |-> "build_replay_prompt", input |-> query, before |-> db,
                       ok |-> out.ok, err |-> out.err, session_id |-> NoRow,
                       node_id |-> IF out.ok THEN query.node_id ELSE NoRow]
           /\ UNCHANGED <<db, conn>>

Next ==
    \/ CreateSession(QuestionSessions)
    \/ CreateNode(QuestionNodes)
    \/ UpdateNode(QuestionUpdates)
    \/ IngestEvent(QuestionEvents)

Spec == Init /\ [][Next]_vars

NextRefs ==
    \/ CreateSession(RefSessions)
    \/ CreateNode(RefNodes)
    \/ UpdateNode(RefUpdates)
    \/ IngestEvent(RefEvents)

SpecRefs == Init /\ [][NextRefs]_vars

NextChoices ==
    \/ CreateSession(ChoiceSessions)
    \/ CreateNode(ChoiceNodes)
    \/ UpdateNode(ChoiceUpdates)
    \/ IngestEvent(ChoiceEvents)

SpecChoices == Init /\ [][NextChoices]_vars

NextNotes ==
    \/ CreateSession(NoteSessions)
    \/ CreateNode(NoteNodes)
    \/ UpdateNode(NoteUpdates)
    \/ IngestEvent(NoteEvents)

SpecNotes == Init /\ [][NextNotes]_vars

\* ------------------------------------------------------------------ concurrent ingestion

\* A request arrives on an idle connection.
Begin(c, inputs) ==
    /\ conn[c].pc = "idle"
    /\ \E payload \in inputs :
          conn' = [conn EXCEPT ![c] = [Idle EXCEPT !.pc = "select_session",
                                                   !.event = payload]]
    /\ UNCHANGED <<db, last, reply>>

NextTags ==
    \/ CreateSession(TagSessions)
    \/ CreateNode(TagNodes)
    \/ UpdateNode(TagUpdates)
    \/ IngestEvent(TagEvents)

SpecTags == Init /\ [][NextTags]_vars

NextStatus ==
    \/ CreateSession(StatusSessions)
    \/ CreateNode(StatusNodes)
    \/ UpdateNode(StatusUpdates)
    \/ IngestEvent(StatusEvents)

SpecStatus == Init /\ [][NextStatus]_vars

NextDigits == IngestEvent(DigitEvents)

SpecDigits == Init /\ [][NextDigits]_vars

NextGraph ==
    \/ IngestEvent(GraphEvents)
    \/ GetSessionGraph(GraphQueries)

SpecGraph == Init /\ [][NextGraph]_vars

NextReplay ==
    \/ IngestEvent(ReplayEvents)
    \/ BuildReplayPrompt(ReplayQueries)

SpecReplay == Init /\ [][NextReplay]_vars

\* Line 504: the session SELECT.
SelectSession(c) ==
    /\ conn[c].pc = "select_session"
    /\ \E row \in {SelectSessionByExt(db, conn[c].event.session_external_id)} :
          conn' = [conn EXCEPT ![c].session_id = row,
                               ![c].pc = IF ReadsTarget([conn[c] EXCEPT !.session_id = row])
                                         THEN "resolve" ELSE "write"]
    /\ UNCHANGED <<db, last, reply>>

\* Lines 592, 633, 661: the target SELECT.
ResolveTarget(c) ==
    /\ conn[c].pc = "resolve"
    /\ \E node_id \in {TargetNode(db, conn[c].session_id, TargetRef(conn[c].event))} :
          conn' = [conn EXCEPT ![c].node_id = node_id,
                               ![c].pc = IF ReadsRationale([conn[c] EXCEPT !.node_id = node_id])
                                         THEN "read_rationale" ELSE "write"]
    /\ UNCHANGED <<db, last, reply>>

\* Line 645: the rationale SELECT of note_added.
ReadRationale(c) ==
    /\ conn[c].pc = "read_rationale"
    /\ conn' = [conn EXCEPT ![c].existing = SelectRationale(db, conn[c].node_id),
                            ![c].pc = "write"]
    /\ UNCHANGED <<db, last, reply>>

\* The rest of the handler and the end of the with block.
Write(c) ==
    /\ conn[c].pc = "write"
    /\ \E res \in {IngestResumed(db, conn[c])} :
          /\ Within(get_conn(db, res))
          /\ db' = get_conn(db, res)
          /\ last' = Outcome("ingest_event", conn[c].event, res)
          /\ conn' = [conn EXCEPT ![c].pc = "done", ![c].ok = res.ok,
                                  ![c].session_id = res.session_id,
                                  ![c].node_id = res.node_id]
          /\ UNCHANGED reply

\* The response is sent.
Finish(c) ==
    /\ conn[c].pc = "done"
    /\ conn' = [conn EXCEPT ![c] = Idle]
    /\ UNCHANGED <<db, last, reply>>

NextConc ==
    \/ CreateSession(ConcSessions)
    \/ \E c \in Conns :
          \/ Begin(c, ConcEvents)
          \/ SelectSession(c)
          \/ ResolveTarget(c)
          \/ ReadRationale(c)
          \/ Write(c)
          \/ Finish(c)

SpecConc == Init /\ [][NextConc]_vars

NextRace ==
    \E c \in Conns :
        \/ Begin(c, RaceEvents)
        \/ SelectSession(c)
        \/ ResolveTarget(c)
        \/ Write(c)
        \/ Finish(c)

SpecRace == Init /\ [][NextRace]_vars

NextNoteRace ==
    \E c \in Conns :
        \/ Begin(c, NoteRaceEvents)
        \/ SelectSession(c)
        \/ ResolveTarget(c)
        \/ ReadRationale(c)
        \/ Write(c)
        \/ Finish(c)

SpecNoteRace == Init /\ [][NextNoteRace]_vars

\* ------------------------------------------------------------------ properties

NodeIds(d) == 1..Len(d.nodes)

ChoicesOf(d, node_id) == {c \in d.choices : c.node_id = node_id}

ChosenOf(d, node_id) == {c \in ChoicesOf(d, node_id) : c.is_chosen}

\* The last completed call was an event of this type, and it succeeded / failed.
Ingested(event_type) ==
    last.op = "ingest_event" /\ last.input.event_type = event_type /\ last.ok

Rejected(event_type) ==
    last.op = "ingest_event" /\ last.input.event_type = event_type /\ ~last.ok

\* C1: in every reachable state every node has at most one choice whose
\* is-chosen flag is set.
C1_AtMostOneChosen ==
    \A n \in NodeIds(db) : Cardinality(ChosenOf(db, n)) <= 1

\* A selection has just moved the flag of a node from one choice to another.
C1_Witness ==
    /\ Ingested("choice_selected")
    /\ \E old \in ChosenOf(last.before, last.node_id) :
          \E new \in ChosenOf(db, last.node_id) : old.label # new.label

\* C2: after a successful choice_selected with label L on node N, the chosen
\* choices of N are exactly one choice, and it is labelled L, whatever was
\* chosen on N before.
C2_ExactlyTheSelected ==
    Ingested("choice_selected") =>
        /\ Cardinality(ChosenOf(db, last.node_id)) = 1
        /\ \A c \in ChosenOf(db, last.node_id) :
              c.label = Strip(last.input.payload.choice_label)

\* B was chosen on the node, and A has just been selected on it.
C2_Witness ==
    /\ Ingested("choice_selected")
    /\ Strip(last.input.payload.choice_label) = LabelA
    /\ \E old \in ChosenOf(last.before, last.node_id) : old.label = LabelB
    /\ Cardinality(ChoicesOf(db, last.node_id)) >= 2

\* The session that carries `tag` in store d (NoRow when there is none).
SessionOfTag(d, tag) == SelectSessionByExt(d, tag)

NoTwoSessionsShareATag(d) ==
    \A i, j \in 1..Len(d.sessions) :
        (i # j /\ d.sessions[i].external_id # Null)
            => d.sessions[i].external_id # d.sessions[j].external_id

\* C3: no two sessions share a non-null external tag, and every ingestion that
\* returns for tag T returns the id of the one session carrying T, also when
\* ingestions of an unseen tag and direct session creations interleave.
C3_OneSessionPerTag ==
    /\ NoTwoSessionsShareATag(db)
    /\ (last.op = "ingest_event" /\ last.ok) =>
          /\ last.session_id \in 1..Len(db.sessions)
          /\ db.sessions[last.session_id].external_id = last.input.session_external_id
    /\ \A c \in Conns :
          (conn[c].pc = "done" /\ conn[c].ok) =>
              /\ conn[c].session_id \in 1..Len(db.sessions)
              /\ db.sessions[conn[c].session_id].external_id
                    = conn[c].event.session_external_id
    /\ \A c1, c2 \in Conns :
          (/\ conn[c1].pc = "done" /\ conn[c1].ok
           /\ conn[c2].pc = "done" /\ conn[c2].ok
           /\ conn[c1].event.session_external_id = conn[c2].event.session_external_id)
              => conn[c1].session_id = conn[c2].session_id

\* Two ingestions of the same tag both found no session; one has inserted it
\* and the other has just run its own INSERT.
C3_Witness ==
    \E c1, c2 \in Conns :
        /\ c1 # c2
        /\ conn[c1].pc = "done" /\ conn[c1].ok
        /\ conn[c2].pc = "done"
        /\ conn[c1].event.session_external_id = conn[c2].event.session_external_id
        /\ last.op = "ingest_event"
        /\ SessionOfTag(last.before, last.input.session_external_id) = conn[c1].session_id
        /\ last.err = "IntegrityError"

\* C4: a failed ingest_event leaves the store as it was before the call.
C4_FailedIngestChangesNothing ==
    (last.op = "ingest_event" /\ ~last.ok) => db = last.before

\* An event of an unseen tag failed after its session and its node had been
\* inserted.
C4_Witness ==
    /\ Rejected("question_presented")
    /\ last.err = "choices_not_list"
    /\ SessionOfTag(last.before, last.input.session_external_id) = NoRow
    /\ db = last.before

\* The three event types that address an existing node.
Addressing == {"choice_selected", "note_added", "node_status_changed"}

\* The reference an addressing event supplies, trimmed; Null when it supplies
\* none.
Supplied(event) ==
    IF event.event_type = "choice_selected"
    THEN _clean_ref(PyOr(event.payload.question_node_ref, event.payload.node_ref))
    ELSE _clean_ref(event.payload.node_ref)

QuestionsOf(d, session_id) ==
    {n \in NodeIds(d) : d.nodes[n].session_id = session_id /\ d.nodes[n].type = "question"}

\* Everything but node n and the choices of n is the same in d1 and d2.
SameButNode(d1, d2, n) ==
    /\ Len(d1.nodes) = Len(d2.nodes)
    /\ \A m \in NodeIds(d1) \ {n} :
          d1.nodes[m] = d2.nodes[m] /\ ChoicesOf(d1, m) = ChoicesOf(d2, m)
    /\ d1.edges = d2.edges

\* C5: an addressing event that supplies no reference acts on the question
\* node with the greatest id among those of the event's own session, and on
\* nothing else.
C5_FallbackIsLatestQuestion ==
    (/\ last.op = "ingest_event" /\ last.ok
     /\ last.input.event_type \in Addressing
     /\ Supplied(last.input) = Null) =>
        LET sid == SessionOfTag(last.before, last.input.session_external_id)
        IN /\ last.session_id = sid
           /\ last.node_id \in QuestionsOf(last.before, sid)
           /\ \A m \in QuestionsOf(last.before, sid) : m <= last.node_id
           /\ SameButNode(last.before, db, last.node_id)
           /\ (last.input.event_type = "node_status_changed"
                  => db.nodes[last.node_id].status
                        = StatusName(Strip(last.input.payload.status)))
           /\ (last.input.event_type = "choice_selected"
                  => ChosenOf(db, last.node_id) # {})
           /\ (last.input.event_type = "note_added"
                  => db.nodes[last.node_id].rationale
                        # last.before.nodes[last.node_id].rationale)

\* The fallback has passed over a newer node (of another type or session).
C5_Witness ==
    /\ last.op = "ingest_event" /\ last.ok
    /\ last.input.event_type \in Addressing
    /\ Supplied(last.input) = Null
    /\ last.node_id < Len(last.before.nodes)
    /\ db # last.before

\* Reference `ref` names node n of session session_id in store d: by id when
\* it is a decimal number, by external tag otherwise.
Names(d, session_id, ref, n) ==
    /\ n \in NodeIds(d)
    /\ d.nodes[n].session_id = session_id
    /\ IF IsDigit(ref) THEN n = ToInt(ref) ELSE d.nodes[n].external_ref = ref

\* C6: an addressing event fails with TargetNotFound (a) when it supplies no
\* reference and its session has no question node, and (b) when it supplies a
\* reference that names no node of its session, even if the session has a
\* question node to fall back to.
C6_TargetNotFound ==
    (last.op = "ingest_event" /\ last.input.event_type \in Addressing) =>
        LET sid == SessionOfTag(last.before, last.input.session_external_id)
            ref == Supplied(last.input)
            missing == IF ref = Null THEN QuestionsOf(last.before, sid) = {}
                       ELSE \A n \in NodeIds(last.before) : ~Names(last.before, sid, ref, n)
        IN missing => (~last.ok /\ last.err = "target_not_found" /\ HttpStatus(last.err) = 404)

\* A reference that names nothing was refused although the session had a
\* question node.
C6_Witness ==
    /\ last.op = "ingest_event" /\ last.input.event_type \in Addressing
    /\ Supplied(last.input) # Null
    /\ QuestionsOf(last.before,
                   SessionOfTag(last.before, last.input.session_external_id)) # {}
    /\ last.err = "target_not_found"

\* The edges of d that touch a node outside session_id.
ForeignEdges(d, session_id) ==
    {i \in 1..Len(d.edges) :
        \/ d.nodes[d.edges[i].from_node_id].session_id # session_id
        \/ d.nodes[d.edges[i].to_node_id].session_id # session_id}

\* C7: an event ingested for session S changes no node, choice or edge of
\* another session, and a reference that names a node of another session (by
\* number or by tag) resolves to not-found in S.
C7_SessionScoped ==
    last.op = "ingest_event" =>
        LET sid == SessionOfTag(db, last.input.session_external_id)
            ref == IF last.input.event_type \in Addressing THEN Supplied(last.input)
                   ELSE _clean_ref(PyOr(last.input.payload.parent_node_ref,
                                        last.input.payload.from_node_ref))
            foreign == /\ ref # Null
                       /\ \E n \in NodeIds(last.before), other \in 1..Len(last.before.sessions) :
                             other # sid /\ Names(last.before, other, ref, n)
        IN /\ \A n \in NodeIds(last.before) :
                 last.before.nodes[n].session_id # sid =>
                     /\ db.nodes[n] = last.before.nodes[n]
                     /\ ChoicesOf(db, n) = ChoicesOf(last.before, n)
           /\ \A i \in ForeignEdges(db, sid) :
                 i <= Len(last.before.edges) /\ db.edges[i] = last.before.edges[i]
           /\ (foreign /\ last.input.event_type \in Addressing)
                 => (~last.ok /\ last.err = "target_not_found")
           /\ (foreign /\ last.input.event_type = "question_presented")
                 => db.edges = last.before.edges

\* A number that is the id of a node of another session was refused.
C7_Witness ==
    /\ last.op = "ingest_event" /\ last.input.event_type \in Addressing
    /\ IsDigit(Supplied(last.input))
    /\ ToInt(Supplied(last.input)) \in NodeIds(db)
    /\ SessionOfTag(db, last.input.session_external_id) # NoRow
    /\ last.err = "target_not_found"

\* The number of places where `note` occurs in `text`.
Copies(text, note) ==
    IF text = Null THEN 0
    ELSE Cardinality({i \in 1..Len(text) :
                         /\ i + Len(note) - 1 <= Len(text)
                         /\ SubSeq(text, i, i + Len(note) - 1) = note})

\* C8: a successful note_added with note text R2 sets the rationale to the
\* old rationale, a newline and R2 when the old rationale is non-empty, and to
\* R2 alone when it is absent or empty; it does so every time, so each replay
\* adds one more copy of the note.
C8_NoteAppended ==
    Ingested("note_added") =>
        LET old == last.before.nodes[last.node_id].rationale
            new == db.nodes[last.node_id].rationale
            note == Strip(last.input.payload.note)
        IN /\ new = IF old = Null \/ old = <<>> THEN note ELSE old \o <<"\n">> \o note
           /\ Copies(new, note) = Copies(old, note) + 1

\* The note that was already in the rationale has been added once more.
C8_Witness ==
    /\ Ingested("note_added")
    /\ Copies(last.before.nodes[last.node_id].rationale,
              Strip(last.input.payload.note)) = 1
    /\ Copies(db.nodes[last.node_id].rationale, Strip(last.input.payload.note)) = 2

\* The parent reference a question_presented event supplies, trimmed.
ParentRef(event) ==
    _clean_ref(PyOr(event.payload.parent_node_ref, event.payload.from_node_ref))

\* The event is a question_presented that passes validation and whose tag, if
\* any, is free in store d.
AcceptableQuestion(d, event) ==
    /\ event.event_type = "question_presented"
    /\ Strip(StrOrEmpty(event.payload.title)) # <<>>
    /\ event.payload.choices.is_list
    /\ \/ _clean_ref(event.payload.node_ref) = Null
       \/ \A n \in NodeIds(d) : d.nodes[n].external_ref # _clean_ref(event.payload.node_ref)

\* The reference names the node the event itself is about to create: by the id
\* it will receive, or by the tag it brings.
NamesItself(d, event, ref) ==
    IF IsDigit(ref) THEN ToInt(ref) = Len(d.nodes) + 1
    ELSE ref = _clean_ref(event.payload.node_ref)

\* C9: a question_presented whose parent reference names no node of the
\* session succeeds: the node and its choices are created, the edges are
\* unchanged, and no error is raised.
C9_UnresolvedParentIgnored ==
    (last.op = "ingest_event" /\ AcceptableQuestion(last.before, last.input)) =>
        LET sid == SessionOfTag(last.before, last.input.session_external_id)
            ref == ParentRef(last.input)
            new == Len(last.before.nodes) + 1
            items == last.input.payload.choices.items
        IN (/\ ref # Null
            /\ ~NamesItself(last.before, last.input, ref)
            /\ \A n \in NodeIds(last.before) : ~Names(last.before, sid, ref, n)) =>
               /\ last.ok
               /\ last.node_id = new
               /\ Len(db.nodes) = new
               /\ db.edges = last.before.edges
               /\ \A i \in 1..Len(items) :
                     _normalize_choice(items[i], i - 1).text # <<>> =>
                        \E c \in ChoicesOf(db, new) :
                            c.label = _normalize_choice(items[i], i - 1).label

\* A question arrived with a parent reference that names nothing; it has its
\* choices and no edge.
C9_Witness ==
    /\ Ingested("question_presented")
    /\ ParentRef(last.input) # Null
    /\ ChoicesOf(db, last.node_id) # {}
    /\ db.edges = last.before.edges

IsPrefix(s1, s2) == Len(s1) <= Len(s2) /\ SubSeq(s2, 1, Len(s1)) = s1

\* C10: a successful question_presented adds exactly one node, a question
\* with status open in the session of the event's tag, and, when its parent
\* reference names a node of that session once the new node is stored, exactly
\* one leads_to edge from that node to the new one, and no edge otherwise; no
\* other event type adds a node or an edge, and no operation changes or
\* removes an edge.
C10_QuestionCreatesNodeAndEdge ==
    /\ IsPrefix(last.before.edges, db.edges)
    /\ (last.op = "ingest_event" /\ last.input.event_type # "question_presented") =>
          /\ Len(db.nodes) = Len(last.before.nodes)
          /\ db.edges = last.before.edges
    /\ Ingested("question_presented") =>
          LET sid == SessionOfTag(db, last.input.session_external_id)
              new == Len(last.before.nodes) + 1
              ref == ParentRef(last.input)
              parents == {n \in NodeIds(db) : ref # Null /\ Names(db, sid, ref, n)}
          IN /\ Len(db.nodes) = new
             /\ IsPrefix(last.before.nodes, db.nodes)
             /\ last.node_id = new
             /\ last.session_id = sid
             /\ db.nodes[new].type = "question"
             /\ db.nodes[new].status = "open"
             /\ db.nodes[new].session_id = sid
             /\ parents = {} => db.edges = last.before.edges
             /\ \A n \in parents :
                   db.edges = Append(last.before.edges,
                                     [from_node_id |-> n, to_node_id |-> new,
                                      type |-> "leads_to"])

\* A question has been linked to an older node of its session.
C10_Witness ==
    /\ Ingested("question_presented")
    /\ Len(db.edges) = Len(last.before.edges) + 1
    /\ db.edges[Len(db.edges)].from_node_id < last.node_id
    /\ db.edges[Len(db.edges)].to_node_id = last.node_id

\* The nodes of a session.
NodesOf(d, session_id) == {n \in NodeIds(d) : d.nodes[n].session_id = session_id}

\* A graph request has just been answered with a graph.
Graphed ==
    /\ last.op = "get_session_graph"
    /\ reply.op = "get_session_graph"
    /\ reply.out.ok

Listed == {reply.out.nodes[i].id : i \in 1..Len(reply.out.nodes)}

\* C11: a graph request with status = S lists exactly the nodes of the session
\* whose status is S.
C11_StatusFilter ==
    (Graphed /\ reply.input.status # Unset /\ ~reply.input.unchosen_only) =>
        Listed = {n \in NodesOf(db, reply.input.session_id) :
                     db.nodes[n].status = StatusName(reply.input.status)}

Replayed ==
    /\ last.op = "build_replay_prompt"
    /\ reply.op = "build_replay_prompt"

\* The choices of the requested node that carry the requested label.
Alternatives ==
    {c \in ChoicesOf(db, reply.input.node_id) : c.label = reply.input.choice_label}

Heads(prompt) == {prompt[i][1] : i \in 1..Len(prompt)}

Rendered(head, label, text) == <<head>> \o label \o <<": ">> \o text

C14_NoChosenLine ==
    (/\ Replayed
     /\ reply.input.node_id \in NodeIds(db)
     /\ Alternatives # {}
     /\ ChosenOf(db, reply.input.node_id) = {}) =>
        LET prompt == reply.out.prompt
        IN /\ reply.out.ok
           /\ "Previously chosen path: " \notin Heads(prompt)
           /\ \A a \in Alternatives :
                 \E i, k \in 1..Len(prompt) :
                    /\ i < k
                    /\ prompt[i] = <<"Decision point: ">> \o db.nodes[reply.input.node_id].title
                    /\ prompt[k] = Rendered("Alternative to execute now: ", a.label, a.text)

\* A prompt for a question whose choices were never selected.
C14_Witness ==
    /\ Replayed /\ reply.out.ok
    /\ ChoicesOf(db, reply.input.node_id) # {}
    /\ ChosenOf(db, reply.input.node_id) = {}

\* C15: a successful ingest_event appends one event_log entry with the event's
\* source and type and the session it resolved; a failed one and every other
\* operation leave the log as it was; no entry is ever changed or removed.
C15_LogAppendOnly ==
    /\ IsPrefix(last.before.event_log, db.event_log)
    /\ IF last.op = "ingest_event" /\ last.ok
       THEN /\ db.event_log = Append(last.before.event_log,
                                     [session_id |-> last.session_id,
                                      source |-> last.input.source,
                                      event_type |-> last.input.event_type])
            /\ last.session_id = SessionOfTag(db, last.input.session_external_id)
            /\ last.session_id # NoRow
       ELSE db.event_log = last.before.event_log

\* The second event of a session, from another source, has been logged behind
\* the first.
C15_Witness ==
    /\ Ingested("node_status_changed")
    /\ Len(db.event_log) = 2
    /\ db.event_log[1].source = "mcp" /\ db.event_log[2].source = "cli"
    /\ db.event_log[1].session_id = db.event_log[2].session_id

\* The event brings no node tag that a node already carries.
NodeTagFree(d, event) ==
    event.event_type = "question_presented" =>
        ~NodeIndexConflict(d, _clean_ref(event.payload.node_ref))

\* C16: an ingestion whose session was inserted by another one between its
\* session SELECT and its own INSERT does not end in the store's uniqueness
\* error.
C16_RaceLoserSucceeds ==
    (/\ last.op = "ingest_event"
     /\ SessionOfTag(last.before, last.input.session_external_id) # NoRow
     /\ NodeTagFree(last.before, last.input)) =>
        last.err # "IntegrityError"

\* The documented error kinds: ValidationError, NotFoundError, ConflictError
\* and UnsupportedEventType.
Documented ==
    {"title_required", "choices_not_list", "label_required", "note_required",
     "invalid_status", "target_not_found", "session_not_found", "node_not_found",
     "external_id_exists", "unsupported_event_type"}

\* C17: every failed ingest_event fails with a documented error kind, also a
\* question_presented whose node_ref is already carried by a node.
C17_DocumentedErrors ==
    (last.op = "ingest_event" /\ ~last.ok) => last.err \in Documented

\* C18: both endpoints of every edge are nodes, and nodes of one session.
C18_EdgeWithinSession ==
    \A i \in 1..Len(db.edges) :
        /\ db.edges[i].from_node_id \in NodeIds(db)
        /\ db.edges[i].to_node_id \in NodeIds(db)
        /\ db.nodes[db.edges[i].from_node_id].session_id
              = db.nodes[db.edges[i].to_node_id].session_id

\* An edge exists while there is a node of another session than its source.
C18_Witness ==
    /\ Len(db.sessions) = 2
    /\ Len(db.edges) >= 1
    /\ \E n \in NodeIds(db) :
          db.nodes[n].session_id # db.nodes[db.edges[1].from_node_id].session_id

\* C19: the source of every edge is older than its target, so no edge is a
\* self-loop and the edges form no cycle.
C19_ParentPrecedes ==
    \A i \in 1..Len(db.edges) : db.edges[i].from_node_id < db.edges[i].to_node_id

\* C20: every operation leaves every session and every node in place, each
\* node in the session it had, and every node's session is a session.
C20_SessionOfNodeFixed ==
    /\ IsPrefix(last.before.sessions, db.sessions)
    /\ \A n \in NodeIds(last.before) :
          n \in NodeIds(db) /\ db.nodes[n].session_id = last.before.nodes[n].session_id
    /\ \A n \in NodeIds(db) : db.nodes[n].session_id \in 1..Len(db.sessions)

\* A node was updated while nodes of two sessions exist.
C20_Witness ==
    /\ last.op = "update_node" /\ last.ok
    /\ \E n, m \in NodeIds(db) : db.nodes[n].session_id # db.nodes[m].session_id

\* The tag a call would give to a new node: the cleaned node_ref of a
\* question_presented event, the external_ref of a direct creation.
NewTag ==
    IF last.op = "ingest_event" /\ last.input.event_type = "question_presented"
       /\ Strip(StrOrEmpty(last.input.payload.title)) # <<>>
    THEN _clean_ref(last.input.payload.node_ref)
    ELSE IF last.op = "create_node" /\ last.input.session_id \in 1..Len(last.before.sessions)
    THEN last.input.external_ref
    ELSE Null

TagsInUse(d) == {d.nodes[n].external_ref : n \in NodeIds(d)} \ {Null}

\* C21: no two nodes carry the same non-null tag, in whatever sessions they
\* are, and a call that would create a second node with a tag in use fails and
\* creates no node.
C21_TagsUnique ==
    /\ \A n, m \in NodeIds(db) :
          (n # m /\ db.nodes[n].external_ref # Null)
              => db.nodes[n].external_ref # db.nodes[m].external_ref
    /\ NewTag \in TagsInUse(last.before) =>
          (~last.ok /\ db.nodes = last.before.nodes)

\* A question of one session brought the tag a node of another session
\* carries, and was refused.
C21_Witness ==
    /\ Rejected("question_presented")
    /\ \E n \in NodeIds(db) :
          /\ db.nodes[n].external_ref = NewTag
          /\ db.nodes[n].session_id # SessionOfTag(db, last.input.session_external_id)

\* The capital letters, in order.
Capitals == <<"A", "B", "C">>

\* The label and the text an entry at position i (from 1) of a choices list
\* stands for.
LabelAt(items, i) ==
    IF items[i].is_dict /\ Truthy(items[i].label) THEN Strip(items[i].label)
    ELSE <<Capitals[i]>>

TextAt(items, i) ==
    IF items[i].is_dict /\ ~Truthy(items[i].text) THEN <<>> ELSE Strip(items[i].text)

\* The positions of the entries that have a text.
Kept(items) == {i \in 1..Len(items) : TextAt(items, i) # <<>>}

\* C22: the choices of a node just created by question_presented are one per
\* label of the entries that have a text, each with the text of the last such
\* entry and unchosen; and in every state the labels of a node's choices are
\* pairwise distinct.
C22_ChoicesOfNewQuestion ==
    /\ \A n \in NodeIds(db) : \A c1, c2 \in ChoicesOf(db, n) :
          c1.label = c2.label => c1 = c2
    /\ Ingested("question_presented") =>
          LET items == last.input.payload.choices.items
              mine == ChoicesOf(db, last.node_id)
          IN /\ {c.label : c \in mine} = {LabelAt(items, i) : i \in Kept(items)}
             /\ \A c \in mine :
                   /\ ~c.is_chosen
                   /\ \E i \in Kept(items) :
                         /\ LabelAt(items, i) = c.label /\ TextAt(items, i) = c.text
                         /\ \A j \in Kept(items) : LabelAt(items, j) = c.label => j <= i

\* Two entries with one label left one choice, with the text of the second.
C22_Witness ==
    /\ Ingested("question_presented")
    /\ Len(last.input.payload.choices.items) = 2
    /\ \E c \in ChoicesOf(db, last.node_id) :
          /\ ChoicesOf(db, last.node_id) = {c}
          /\ c.label = LabelA /\ c.text = TextY

\* The label a choice_selected event selects, and the text it brings (Null
\* when it brings none or a blank one).
SelectedLabel == Strip(StrOrEmpty(last.input.payload.choice_label))

BroughtText ==
    IF last.input.payload.choice_text = Null
       \/ Strip(last.input.payload.choice_text) = <<>>
    THEN Null
    ELSE Strip(last.input.payload.choice_text)

\* A choice without its chosen flag.
Bare3(c) == <<c.id, c.label, c.text>>

\* C23: a successful choice_selected with a label the node does not have adds
\* exactly one choice, with that label, chosen, with the text brought or else
\* the label as text; with a label the node has it adds no choice and leaves
\* every text as it was.
C23_MissingLabelInserted ==
    Ingested("choice_selected") =>
        LET n == last.node_id
            old == ChoicesOf(last.before, n)
            new == ChoicesOf(db, n)
        IN IF \E c \in old : c.label = SelectedLabel
           THEN {Bare3(c) : c \in new} = {Bare3(c) : c \in old}
           ELSE \E c \in new :
                   /\ {Bare3(x) : x \in new \ {c}} = {Bare3(x) : x \in old}
                   /\ c \notin old /\ Cardinality(new) = Cardinality(old) + 1
                   /\ c.label = SelectedLabel
                   /\ c.is_chosen
                   /\ c.text = IF BroughtText = Null THEN SelectedLabel ELSE BroughtText

\* A label the node did not have was selected with a text, and added with it.
C23_Witness ==
    /\ Ingested("choice_selected")
    /\ BroughtText # Null
    /\ ~\E c \in ChoicesOf(last.before, last.node_id) : c.label = SelectedLabel
    /\ \E c \in ChoicesOf(db, last.node_id) : c.label = SelectedLabel /\ c.text = BroughtText

\* The status a node_status_changed event asks for, trimmed.
AskedStatus == Strip(StrOrEmpty(last.input.payload.status))

\* C24: a node_status_changed event with a status outside the four fails with
\* InvalidStatus and changes no node; with one of the four it sets the status
\* of the target and of no other node; every node's status is one of the four
\* in every state.
C24_StatusChange ==
    /\ \A n \in NodeIds(db) : db.nodes[n].status \in NodeStatus
    /\ (last.op = "ingest_event" /\ last.input.event_type = "node_status_changed") =>
          IF AskedStatus \notin {Open, InProgress, Blocked, Done}
          THEN /\ ~last.ok
               /\ last.err \in {"invalid_status", "target_not_found"}
               /\ db.nodes = last.before.nodes
          ELSE last.ok =>
                  /\ db.nodes[last.node_id].status = StatusName(AskedStatus)
                  /\ db.nodes = [last.before.nodes EXCEPT
                                    ![last.node_id].status = StatusName(AskedStatus)]

\* An unknown status was refused for a node that exists and is not open.
C24_Witness ==
    /\ Rejected("node_status_changed")
    /\ last.err = "invalid_status"
    /\ \E n \in NodeIds(db) : db.nodes[n].status # "open"

\* A graph request without filters has just been answered.
AskedUnfiltered ==
    /\ last.op = "get_session_graph"
    /\ reply.op = "get_session_graph"
    /\ reply.input.status = Unset /\ ~reply.input.unchosen_only

Ascending(ids) == \A i, j \in 1..Len(ids) : i < j => ids[i] < ids[j]

\* The answer is for a known session, and its nodes and edges are those of the
\* session, in ascending id order; the store is as before the request.
NodesAndEdgesOfSession ==
    LET sid == reply.input.session_id
        out == reply.out
    IN /\ db = last.before
       /\ sid \in 1..Len(db.sessions)
       /\ out.ok
       /\ Ascending([i \in 1..Len(out.nodes) |-> out.nodes[i].id])
       /\ {out.nodes[i] : i \in 1..Len(out.nodes)}
             = {[id |-> n] @@ db.nodes[n] : n \in NodesOf(db, sid)}
       /\ Ascending([i \in 1..Len(out.edges) |-> out.edges[i].id])
       /\ {out.edges[i] : i \in 1..Len(out.edges)}
             = {[id |-> e] @@ db.edges[e] :
                   e \in {x \in 1..Len(db.edges) :
                             db.edges[x].from_node_id \in NodesOf(db, sid)}}
       /\ {out.choices[i] : i \in 1..Len(out.choices)}
             = {c \in db.choices : c.node_id \in NodesOf(db, sid)}
       /\ Len(out.choices) = Cardinality({c \in db.choices : c.node_id \in NodesOf(db, sid)})

UnknownSessionRefused ==
    /\ db = last.before
    /\ reply.input.session_id \notin 1..Len(db.sessions)
    /\ ~reply.out.ok /\ reply.out.err = "session_not_found"

\* C25 as stated: the graph of a session without filters is its nodes, the
\* edges leaving them and their choices, each in ascending id order, or
\* SessionNotFound; the store is not changed.
C25_ChoicesInCreationOrder ==
    AskedUnfiltered =>
        \/ UnknownSessionRefused
        \/ /\ NodesAndEdgesOfSession
           /\ Ascending([i \in 1..Len(reply.out.choices) |-> reply.out.choices[i].id])

\* C25, amended: as above, but the choices come node by node in ascending
\* node id, and in ascending choice id within a node.
C25_ChoicesNodeByNode ==
    AskedUnfiltered =>
        \/ UnknownSessionRefused
        \/ /\ NodesAndEdgesOfSession
           /\ LET cs == reply.out.choices
              IN \A i, j \in 1..Len(cs) :
                    i < j => \/ cs[i].node_id < cs[j].node_id
                             \/ cs[i].node_id = cs[j].node_id /\ cs[i].id < cs[j].id

\* The graph of a session with two nodes, where a choice added later to the
\* first node is listed ahead of an older choice of the second.
C25_Witness ==
    /\ AskedUnfiltered /\ reply.out.ok
    /\ Len(reply.out.nodes) = 2
    /\ \E i, j \in 1..Len(reply.out.choices) :
          /\ i < j
          /\ reply.out.choices[i].node_id < reply.out.choices[j].node_id
          /\ reply.out.choices[i].id > reply.out.choices[j].id

\* Connection c has committed a selection and not yet answered.
HasSelected(c) ==
    /\ conn[c].pc = "done" /\ conn[c].ok
    /\ conn[c].event.event_type = "choice_selected"

LabelOf(c) == Strip(StrOrEmpty(conn[c].event.payload.choice_label))

\* Both connections have committed selections of different labels on one node.
BothSelected ==
    /\ HasSelected(1) /\ HasSelected(2)
    /\ conn[1].node_id = conn[2].node_id
    /\ LabelOf(1) # LabelOf(2)

\* C26: when two choice_selected events with different labels on the same node
\* are ingested by two connections at once, then in every interleaving the node
\* ends with exactly one chosen choice, and its label is that of one of the two
\* events.
C26_OneChosenAfterRace ==
    BothSelected =>
        \E ch \in ChoicesOf(db, conn[1].node_id) :
            /\ ChosenOf(db, conn[1].node_id) = {ch}
            /\ ch.label \in {LabelOf(1), LabelOf(2)}

\* Both selections are committed, the one of an unlisted label after the other
\* had set its flag, and the chosen choice is the unlisted one.
C26_Witness ==
    /\ BothSelected
    /\ last.op = "ingest_event" /\ last.input = conn[2].event
    /\ Cardinality(ChosenOf(last.before, conn[1].node_id)) = 1
    /\ \E ch \in ChosenOf(db, conn[2].node_id) : ch.label = LabelOf(2) /\ ch.label = <<"C">>

\* Connection c has committed a note and not yet answered.
HasNoted(c) ==
    /\ conn[c].pc = "done" /\ conn[c].ok
    /\ conn[c].event.event_type = "note_added"

NoteOf(c) == Strip(StrOrEmpty(conn[c].event.payload.note))

\* `part` occurs in `text`.
Contains(text, part) ==
    \E i \in 1..(Len(text) - Len(part) + 1) : SubSeq(text, i, i + Len(part) - 1) = part

\* C28: when two note_added events on the same node of an existing session are
\* ingested by two connections at once and both succeed, the rationale of the
\* node contains both notes, in every interleaving.
C28_BothNotesKept ==
    (/\ HasNoted(1) /\ HasNoted(2)
     /\ conn[1].node_id = conn[2].node_id
     /\ NoteOf(1) # NoteOf(2)) =>
        LET rationale == db.nodes[conn[1].node_id].rationale
        IN /\ rationale # Null
           /\ Contains(rationale, NoteOf(1))
           /\ Contains(rationale, NoteOf(2))

\* The reference by which the last event names a node: its target, or for a
\* question its parent.
ReferenceOf(event) ==
    IF event.event_type \in Addressing THEN Supplied(event) ELSE ParentRef(event)

\* The last event acted on node n: an addressing event returned n and changed
\* nothing else, or failed for another reason than a missing target; a question
\* got its edge from n.
Targets(n) ==
    IF last.input.event_type \in Addressing
    THEN IF last.ok THEN last.node_id = n /\ SameButNode(last.before, db, n)
         ELSE last.err # "target_not_found"
    ELSE last.ok =>
            /\ Len(db.edges) = Len(last.before.edges) + 1
            /\ db.edges[Len(db.edges)].from_node_id = n
            /\ db.edges[Len(db.edges)].to_node_id = last.node_id

\* C27: once a node N of session S carries the tag r, every later
\* choice_selected, note_added and node_status_changed event in S with
\* reference r, and every later question_presented in S with parent reference
\* r, targets N, for every non-empty tag r, also one made only of digits.
C27_TagAddressing ==
    last.op = "ingest_event" =>
        LET sid == SessionOfTag(last.before, last.input.session_external_id)
            r == ReferenceOf(last.input)
        IN \A n \in NodeIds(last.before) :
              (/\ r # Null
               /\ last.before.nodes[n].session_id = sid
               /\ last.before.nodes[n].external_ref = r) => Targets(n)

\* C27, for tags that are not made only of digits: every later event of S
\* that refers to the tag r of node N targets N.
C27_WordTagAddressing ==
    last.op = "ingest_event" =>
        LET sid == SessionOfTag(last.before, last.input.session_external_id)
            r == ReferenceOf(last.input)
        IN \A n \in NodeIds(last.before) :
              (/\ r # Null /\ ~IsDigit(r)
               /\ last.before.nodes[n].session_id = sid
               /\ last.before.nodes[n].external_ref = r) => Targets(n)

\* A note by tag has reached the first node of a session whose latest question
\* is another one.
C27_Witness ==
    /\ Ingested("note_added")
    /\ ReferenceOf(last.input) = TagQ
    /\ last.node_id = 1 /\ last.before.nodes[1].external_ref = TagQ
    /\ Len(last.before.nodes) = 2
    /\ last.before.nodes[2].session_id = last.before.nodes[1].session_id
    /\ last.before.nodes[2].type = "question"

\* The store after the last event is ingested once more.
IngestedAgain == get_conn(db, ingest_event(db, last.input))

\* C29: ingesting the same choice_selected or node_status_changed event a
\* second time in a row leaves the sessions, nodes, choices and edges as the
\* first time left them (the event log aside), also when the first
\* choice_selected inserted a missing label.
C29_SecondTimeChangesNothing ==
    (/\ last.op = "ingest_event"
     /\ last.input.event_type \in {"choice_selected", "node_status_changed"}) =>
        /\ IngestedAgain.sessions = db.sessions
        /\ IngestedAgain.nodes = db.nodes
        /\ IngestedAgain.choices = db.choices
        /\ IngestedAgain.edges = db.edges
        /\ ingest_event(db, last.input).ok = last.ok

\* The unlisted label C has just been selected on a node where the choice C,
\* inserted by an earlier selection, was the chosen one.
C29_Witness ==
    /\ Ingested("choice_selected")
    /\ SelectedLabel = <<"C">>
    /\ \E c \in ChosenOf(last.before, last.node_id) : c.label = <<"C">>
    /\ db.choices = last.before.choices

\* The nodes of d with the rationale and the status blanked.
WithoutRationale(d) ==
    [n \in NodeIds(d) |-> [d.nodes[n] EXCEPT !.rationale = Null]]

WithoutStatus(d) ==
    [n \in NodeIds(d) |-> [d.nodes[n] EXCEPT !.status = "open"]]

\* C30: a choice_selected event on node N changes only the choices of N; a
\* note_added event only the rationale of its target; a node_status_changed
\* event only the status of its target.  The choices of every other node, the
\* other fields of every node, and the sets of nodes and edges stay as they
\* were.
C30_FrameOfAddressingEvents ==
    /\ Ingested("choice_selected") =>
          /\ db.nodes = last.before.nodes
          /\ db.edges = last.before.edges
          /\ \A m \in NodeIds(db) \ {last.node_id} :
                ChoicesOf(db, m) = ChoicesOf(last.before, m)
    /\ Ingested("note_added") =>
          /\ db.choices = last.before.choices
          /\ db.edges = last.before.edges
          /\ WithoutRationale(db) = WithoutRationale(last.before)
          /\ \A m \in NodeIds(db) \ {last.node_id} : db.nodes[m] = last.before.nodes[m]
    /\ Ingested("node_status_changed") =>
          /\ db.choices = last.before.choices
          /\ db.edges = last.before.edges
          /\ WithoutStatus(db) = WithoutStatus(last.before)
          /\ \A m \in NodeIds(db) \ {last.node_id} : db.nodes[m] = last.before.nodes[m]

\* A selection has moved the flag on one node while another node of the store
\* kept its chosen choice.
C30_Witness ==
    /\ Ingested("choice_selected")
    /\ ChosenOf(db, last.node_id) # ChosenOf(last.before, last.node_id)
    /\ \E m \in NodeIds(db) \ {last.node_id} : ChosenOf(db, m) # {}

====
